---- MODULE Spec2Model ----
(***************************************************************************)
(* A model of the VMG30 glove driver (src/vmg30/glove.py): the frame codec *)
(* (_send, _read, _recv, _exec), the serial transport it reads from, and   *)
(* the session operations built on it.                                     *)
(***************************************************************************)
EXTENDS Integers, Sequences, FiniteSets, TLC

(***************************************************************************)
(* Bounds of the model.                                                    *)
(***************************************************************************)
\* frames the host writes in one behaviour of the codec specification
MaxTx == 2
\* setter calls that write their frame in one behaviour
MaxExec == 2
\* frames the host writes in one behaviour of the sampling and of the
\* calibration specification
MaxCmd == 3
\* sample frames the glove streams in one behaviour
MaxSamples == 2
\* stage frames the glove sends in one behaviour
MaxStages == 3
\* longest payload given to _send by the frame-layout specification
MaxLen == 2

(***************************************************************************)
(* Protocol constants.                                                     *)
(***************************************************************************)
\* 0x24, the start marker
START == 36
\* 0x23, the end marker
END == 35

Min(a, b) == IF a < b THEN a ELSE b
Max(a, b) == IF a > b THEN a ELSE b

\* Python's sum() over a bytes object
RECURSIVE Sum(_)
Sum(s) == IF s = <<>> THEN 0 ELSE Head(s) + Sum(Tail(s))

\* Python's s[:n], also for a negative n
Take(s, n) ==
    IF n >= 0 THEN SubSeq(s, 1, Min(n, Len(s)))
    ELSE SubSeq(s, 1, Max(Len(s) + n, 0))

\* Python's s[n:], also for a negative n
Drop(s, n) ==
    IF n >= 0 THEN SubSeq(s, Min(n, Len(s)) + 1, Len(s))
    ELSE SubSeq(s, Max(Len(s) + n, 0) + 1, Len(s))

\* package_data = None (no sequence of bytes holds -1)
None == <<-1>>

\* Encode with the length byte counting the payload alone
EncodeShortLength(package_type, package_data) ==
    LET package == IF package_data # None
                   THEN <<START, package_type, Len(package_data)>> \o package_data
                   ELSE <<START, package_type, 0>>
        crc == Sum(package) % 256
    IN  package \o <<crc, END>>

\* Encode with a checksum that is not reduced modulo 256
EncodeChecksumNoWrap(package_type, package_data) ==
    LET package == IF package_data # None
                   THEN <<START, package_type, Len(package_data) + 2>> \o package_data
                   ELSE <<START, package_type, 2>>
    IN  package \o <<Sum(package), END>>

\* the bytes _send hands to conn.write
Encode(package_type, package_data) ==
    LET package == IF package_data # None
                   THEN <<START, package_type, Len(package_data) + 2>> \o package_data
                   ELSE <<START, package_type, 2>>
        crc == Sum(package) % 256
    IN  package \o <<crc, END>>

VARIABLES
    buffer,     \* self._buffer: bytes read from the port and not yet consumed
    rx,         \* bytes waiting in the serial port (conn.in_waiting = Len(rx))
    wire,       \* bytes sent towards the host that have not reached the port
    tx,         \* the conn.write calls that completed, in order
    pc,         \* where the host is inside the running operation
    op,         \* the running (or last) operation and its arguments
    package,    \* _recv's local variable
    ret,        \* how the last operation ended
    _device_id, \* self._device_id
    _label,     \* self._label
    gen,        \* the generator made by calibration()
    mode,       \* the session state set by the last start/stop_sampling
    call,       \* what the running operation has done so far
    items,      \* what was put on the wire, in order
    dev,        \* the glove at the other end of the line
    _conn,      \* self._conn: the serial port, not yet opened, open or closed
    scope       \* the sampling() context: not entered, entered, or left

vars == <<buffer, rx, wire, tx, pc, op, package, ret, _device_id, _label, gen,
          mode, call, items, dev, _conn, scope>>

\* what only the session operations change
cached == <<_device_id, _label>>

\* what only the sampling and the closing operations change
session == <<mode, _conn, scope>>

(***************************************************************************)
(* Input sets.                                                             *)
(***************************************************************************)
\* type codes used by the codec specification: the sample type, and a type
\* code that equals the start marker
CodecTypes == {10, START}
\* payloads used by the codec specification: absent, empty, and one that
\* holds the start and the end marker
CodecPayloads == {None, <<>>, <<START, END>>}
\* bytes the line may insert between frames (none is the start marker)
StrayBytes == {0, END}

(***************************************************************************)
(* Python values of the cached fields.                                     *)
(***************************************************************************)
PyInt(n) == [type |-> "int", items |-> <<n>>]
PyTuple(s) == [type |-> "tuple", items |-> s]

(***************************************************************************)
(* Glove._read and the transport's read.                                   *)
(***************************************************************************)
\* conn.read(n) with `port` the bytes waiting: what it returns before the
\* timeout when nothing more arrives
ConnRead(port, n) == Take(port, n)

\* what a read from or a write to a port that is not open raises: pyserial's
\* PortNotOpenError, or the error of in_waiting on a closed descriptor
ClosedError == "TransportError"

\* _read that returns the bytes and leaves them in the buffer
_readKeep(buf, port, size, open) ==
    LET got  == ConnRead(port, Max(size - Len(buf), Len(port)))
        buf1 == IF size > Len(buf) THEN buf \o got ELSE buf
        left == IF size > Len(buf) THEN Drop(port, Len(got)) ELSE port
    IN  IF size > Len(buf1)
        THEN [ok |-> FALSE, err |-> "GloveTimeoutError", data |-> <<>>,
              buffer |-> buf1, rx |-> left]
        ELSE [ok |-> TRUE, err |-> "none", data |-> Take(buf1, size),
              buffer |-> buf1, rx |-> left]

\* _read that, when it raises GloveTimeoutError, forgets the bytes it has
\* just received
_readForget(buf, port, size, open) ==
    LET got  == ConnRead(port, Max(size - Len(buf), Len(port)))
        buf1 == IF size > Len(buf) THEN buf \o got ELSE buf
        left == IF size > Len(buf) THEN Drop(port, Len(got)) ELSE port
    IN  IF size > Len(buf1)
        THEN [ok |-> FALSE, err |-> "GloveTimeoutError", data |-> <<>>,
              buffer |-> buf, rx |-> left]
        ELSE [ok |-> TRUE, err |-> "none", data |-> Take(buf1, size),
              buffer |-> Drop(buf1, size), rx |-> left]

\* Glove._read(size) on buffer buf and waiting bytes port: the bytes
\* returned (ok), or the error raised (~ok): GloveTimeoutError, or the
\* transport's own error when the port is not open; and the buffer and port
\* after
_read(buf, port, size, open) ==
    IF size > Len(buf)
    THEN IF ~open
         THEN [ok |-> FALSE, err |-> ClosedError, data |-> <<>>,
               buffer |-> buf, rx |-> port]
         ELSE
         LET n    == Max(size - Len(buf), Len(port))
             got  == ConnRead(port, n)
             buf1 == buf \o got
             left == Drop(port, Len(got))
         IN  IF size > Len(buf1)
             THEN [ok |-> FALSE, err |-> "GloveTimeoutError", data |-> <<>>,
                   buffer |-> buf1, rx |-> left]
             ELSE [ok |-> TRUE, err |-> "none", data |-> Take(buf1, size),
                   buffer |-> Drop(buf1, size), rx |-> left]
    ELSE [ok |-> TRUE, err |-> "none", data |-> Take(buf, size),
          buffer |-> Drop(buf, size), rx |-> port]

(***************************************************************************)
(* What is on the wire.                                                    *)
(***************************************************************************)
RECURSIVE TotalLen(_)
TotalLen(its) ==
    IF its = <<>> THEN 0 ELSE Len(Head(its).bytes) + TotalLen(Tail(its))

RECURSIVE Flat(_)
Flat(its) == IF its = <<>> THEN <<>> ELSE Head(its).bytes \o Flat(Tail(its))

\* bytes of the stream the codec has consumed for good
Consumed == TotalLen(items) - Len(buffer) - Len(rx) - Len(wire)

\* the byte b with bit number k inverted
FlipBit(b, k) ==
    IF (b \div (2 ^ k)) % 2 = 1 THEN b - 2 ^ k ELSE b + 2 ^ k

\* the record of a call that starts now: the stream position it starts at,
\* whether all that was sent has reached the port, and what it did
NewCall == [start |-> Consumed, full |-> wire = <<>>,
            writes |-> 0, wrote |-> 0, read |-> FALSE, recvs |-> 0,
            raised |-> "none"]

NoResult == [kind |-> "none", val |-> <<>>]

NoGen == [state |-> "none", stage |-> 0, yielded |-> <<>>, from |-> 0]

\* a call of `name` begins
Begin(name, t, p, arg) ==
    /\ pc = "idle"
    /\ op' = [name |-> name, t |-> t, p |-> p, arg |-> arg]

(***************************************************************************)
(* Ending an operation.                                                    *)
(***************************************************************************)
Finish(kind, val) ==
    /\ pc' = "idle"
    /\ ret' = [kind |-> kind, val |-> val]

\* the operation goes on at `next`
Goto(next) ==
    /\ pc' = next
    /\ ret' = NoResult

(***************************************************************************)
(* Glove._send.                                                            *)
(***************************************************************************)
\* one conn.write
Written(package_type, package_data) ==
    [frame |-> Encode(package_type, package_data),
     t |-> package_type, p |-> package_data]

\* what _send raises when conn.write does not complete: GloveTimeoutError
\* for the SerialTimeoutException it catches (lines 262-263), and the
\* transport's own error when the port is not open
WriteError == IF _conn = "open" THEN "GloveTimeoutError" ELSE ClosedError

\* _send by a call whose record is c: conn.write completes, or it raises
\* SerialTimeoutException and _send raises GloveTimeoutError
ConnWrite(c, package_type, package_data, done) ==
    /\ done => _conn = "open"
    /\ tx' = IF done THEN Append(tx, Written(package_type, package_data)) ELSE tx
    /\ call' = [c EXCEPT !.writes = @ + 1,
                         !.wrote = IF done THEN @ + 1 ELSE @,
                         !.raised = IF done THEN @ ELSE WriteError]

\* the call _send(t, p)
_send(t, p, done) ==
    /\ Begin("_send", t, p, <<>>)
    /\ Len(tx) < MaxTx
    /\ ConnWrite(NewCall, t, p, done)
    /\ IF done THEN Finish("ok", <<>>) ELSE Finish(WriteError, <<>>)
    /\ UNCHANGED <<buffer, rx, package, cached, gen, session, dev>>

(***************************************************************************)
(* The operations that await a frame: what each does with the payload      *)
(* _recv returns and with the error _recv raises.                          *)
(***************************************************************************)
\* struct.unpack('>H', b) for a b of two bytes
Unpack_H(b) == b[1] * 256 + b[2]

\* struct.pack('>H', v)
Pack_H(v) == <<v \div 256, v % 256>>

\* the device_id setter storing the requested id instead of the echo
Stored_device_id_requested(echo, requested) == PyTuple(<<requested>>)

\* device_id setter, line 68: the value stored in self._device_id
Stored_device_id(echo, requested) == PyTuple(<<Unpack_H(echo)>>)

\* str.split('\0', 1)[0] on the decoded bytes
RECURSIVE UntilNul(_)
UntilNul(b) ==
    IF b = <<>> \/ Head(b) = 0 THEN <<>> ELSE <<Head(b)>> \o UntilNul(Tail(b))

\* label.ljust(16, '\0').encode() packed as '16s': cut or padded to 16 bytes
Pack_16s(l) == [i \in 1..16 |-> IF i <= Len(l) THEN l[i] ELSE 0]

\* label setter, line 88: the value stored in self._label
Stored_label(echo, requested) == UntilNul(echo)

\* calibration with the failure stage yielded like any other
CalOutcomeNoFail(stage) == "yield"

\* calibration that ends at stage 100 without yielding it
CalOutcomeSilentEnd(stage) ==
    IF stage = 255 THEN "raise" ELSE IF stage = 100 THEN "return" ELSE "yield"

\* calibration, lines 117-119: what the generator does with a stage read
CalOutcome(stage) == IF stage = 255 THEN "raise" ELSE "yield"

\* calibration, line 116: the loop goes on
CalContinue(stage) == stage # 100

\* bytes of a sample payload per layout: header, IMU or quaternion block, tail
SampleHeader == 7
SampleRawBlock == 36
SampleQuatBlock == 32
SampleTail == 48

\* next_sample, line 141
IsRaw(sample_type) == sample_type = 3

\* next_sample: the struct.unpack calls find the bytes they ask for
SampleFits(data) ==
    /\ Len(data) >= SampleHeader
    /\ Len(data) >= SampleHeader + SampleTail
          + (IF IsRaw(data[1]) THEN SampleRawBlock ELSE SampleQuatBlock)

\* a float the decoder computes, kept exact as a fraction num / den
Ratio(num, den) == [num |-> num, den |-> den]

\* struct.unpack of one big-endian field that starts at byte number `at`
\* (counted from 1): 'H', 'h', 'I', 'i'
U16At(data, at) == data[at] * 256 + data[at + 1]
S16At(data, at) ==
    IF U16At(data, at) >= 32768 THEN U16At(data, at) - 65536 ELSE U16At(data, at)
\* (the high half first; a clock below 2^31 ms keeps the sum within the
\* integers of TLC)
U32At(data, at) == U16At(data, at) * 65536 + U16At(data, at + 2)
S32At(data, at) == S16At(data, at) * 65536 + U16At(data, at + 2)

\* lines 146, 150 with the scale of the quaternions
AngularVelocityQuatScale(v) == Ratio(v * 10, 65536)

\* lines 146, 150: v / 0x8000 * 10
AngularVelocity(v) == Ratio(v * 10, 32768)
\* lines 147, 151: v / 0x8000 * 4
Acceleration(v) == Ratio(v * 4, 32768)
\* lines 148, 152: the value as it is
MagneticField(v) == Ratio(v, 1)
\* lines 155-156: v / 0x10000
QuatComponent(v) == Ratio(v, 65536)
\* lines 166-172: v / 1000
Thousandth(v) == Ratio(v, 1000)
\* line 170: 1.0 - v / 999
Pressure(v) == Ratio(999 - v, 999)

\* lines 145-152: the IMUSample made of the nine values values[first .. first + 8]
\* of the raw block
IMU(data, first) ==
    LET h(i) == S16At(data, SampleHeader + 2 * (first + i) + 1)
    IN  [angular_velocity |-> [i \in 1..3 |-> AngularVelocity(h(i - 1))],
         acceleration |-> [i \in 1..3 |-> Acceleration(h(i + 2))],
         magnetic_field |-> [i \in 1..3 |-> MagneticField(h(i + 5))]]

\* lines 155-156: the quaternion made of values[first .. first + 3] of the
\* quaternion block
Quat(data, first) ==
    [i \in 1..4 |-> QuatComponent(S32At(data, SampleHeader + 4 * (first + i - 1) + 1))]

\* line 158: values[i] of the tail, i counted from 0
TailValue(data, i) ==
    U16At(data, SampleHeader
                  + (IF IsRaw(data[1]) THEN SampleRawBlock ELSE SampleQuatBlock)
                  + 2 * i + 1)

\* the proximal joints read at the indices of the distal ones
PipIndexEven(k) == 2 * k - 2

\* line 166: values[1:10:2], the index of the k-th element, k from 1
PipIndex(k) == 2 * k - 1
\* line 167: values[0:10:2]
DipIndex(k) == 2 * k - 2

\* next_sample: the GloveSample built from a payload that fits
DecodeSample(data) ==
    LET raw == IsRaw(data[1])
        clock_ms == U32At(data, 4)
    IN  [variant |-> IF raw THEN "raw" ELSE "quat",
         device_id |-> Unpack_H(SubSeq(data, 2, 3)),
         clock_ms |-> clock_ms,
         clock |-> Thousandth(clock_ms),
         wrist_imu |-> IF raw THEN IMU(data, 0) ELSE None,
         hand_imu |-> IF raw THEN IMU(data, 9) ELSE None,
         wrist_quat |-> IF ~raw THEN Quat(data, 0) ELSE None,
         hand_quat |-> IF ~raw THEN Quat(data, 4) ELSE None,
         pip_joints |-> [k \in 1..5 |-> Thousandth(TailValue(data, PipIndex(k)))],
         dip_joints |-> [k \in 1..5 |-> Thousandth(TailValue(data, DipIndex(k)))],
         palm_arch |-> Thousandth(TailValue(data, 10)),
         thumb_cross_over |-> Thousandth(TailValue(data, 12)),
         pressures |-> [k \in 1..5 |-> Pressure(TailValue(data, 13 + k))],
         abductions |-> [k \in 1..4 |-> Thousandth(TailValue(data, 18 + k))],
         battery_charge |-> Thousandth(TailValue(data, 23))]

\* __init__, lines 45-49: the except clauses turn serial.SerialException
\* and GloveTimeoutError into GloveConnectionError; any other exception
\* leaves the constructor as it is
InitExcept(kind) ==
    IF kind \in {"SerialException", "GloveTimeoutError"}
    THEN "GloveConnectionError" ELSE kind

\* _exec that awaits another frame when _recv raises
ExecRaiseRetry(c, kind) ==
    /\ Goto("recv")
    /\ call' = [c EXCEPT !.recvs = @ + 1]
    /\ UNCHANGED <<cached, gen>>

\* _exec, line 267: an error raised by _recv leaves _exec as it is
ExecRaise(c, kind) ==
    /\ Finish(kind, <<>>)
    /\ call' = c
    /\ UNCHANGED <<cached, gen>>

\* the callers of _exec
ExecCallers == {"device_id", "label"}

\* what the caller of _recv does with the returned payload; c is the call
\* record after the read
RecvReturn(c, package_data) ==
    /\ call' = c
    /\ CASE op.name = "device_id" ->
              /\ IF Len(package_data) = 2
                 THEN /\ _device_id' = Stored_device_id(package_data, op.arg[1])
                      /\ Finish("ok", <<>>)
                 ELSE /\ Finish("struct.error", <<>>)
                      /\ UNCHANGED _device_id
              /\ UNCHANGED <<_label, gen>>
         [] op.name = "label" ->
              /\ _label' = Stored_label(package_data, op.arg)
              /\ Finish("ok", <<>>)
              /\ UNCHANGED <<_device_id, gen>>
         [] op.name = "next_sample" ->
              /\ IF SampleFits(package_data)
                 THEN Finish("ok", <<DecodeSample(package_data)>>)
                 ELSE Finish("struct.error", <<>>)
              /\ UNCHANGED <<cached, gen>>
         [] op.name = "calibration" ->
              /\ IF Len(package_data) # 1
                 THEN /\ Finish("ValueError", <<>>)
                      /\ gen' = [gen EXCEPT !.state = "done"]
                 ELSE LET stage == package_data[1]
                      IN  CASE CalOutcome(stage) = "raise" ->
                                 /\ Finish("GloveError", <<>>)
                                 /\ gen' = [gen EXCEPT !.state = "done", !.stage = stage]
                            [] CalOutcome(stage) = "yield" ->
                                 /\ Finish("ok", <<stage>>)
                                 /\ gen' = [gen EXCEPT !.state = "suspended",
                                                       !.stage = stage,
                                                       !.yielded = Append(@, stage)]
                            [] OTHER ->
                                 /\ Finish("StopIteration", <<>>)
                                 /\ gen' = [gen EXCEPT !.state = "done", !.stage = stage]
              /\ UNCHANGED cached
         [] op.name = "__init__" ->
              /\ pc' = "init_reply"
              /\ ret' = [kind |-> "none", val |-> package_data]
              /\ UNCHANGED <<cached, gen>>
         [] OTHER ->
              /\ Finish("ok", package_data)
              /\ UNCHANGED <<cached, gen>>

\* what the caller of _recv does with an error raised by it
RecvRaise(c, kind) ==
    IF op.name \in ExecCallers
    THEN ExecRaise([c EXCEPT !.raised = kind], kind)
    ELSE /\ Finish(IF op.name = "__init__" THEN InitExcept(kind) ELSE kind, <<>>)
         /\ call' = [c EXCEPT !.raised = kind]
         /\ gen' = IF op.name = "calibration"
                   THEN [gen EXCEPT !.state = "done"] ELSE gen
         /\ UNCHANGED cached

\* _recv goes on reading
RecvGoto(c, next) ==
    /\ Goto(next)
    /\ call' = c
    /\ UNCHANGED <<cached, gen>>

(***************************************************************************)
(* Glove._recv.                                                            *)
(***************************************************************************)
\* the call _recv(t): entry into the loop
_recv(t) ==
    /\ Begin("_recv", t, None, <<>>)
    /\ call' = [NewCall EXCEPT !.recvs = 1]
    /\ Goto("recv")
    /\ UNCHANGED <<buffer, rx, wire, tx, package, cached, gen, session, items, dev>>

\* _recv line 242-243: package = self._read(1), and the test for 0x24
RecvStart ==
    /\ pc = "recv"
    /\ LET r == _read(buffer, rx, 1, _conn = "open")
           c == [call EXCEPT !.read = TRUE]
       IN  /\ buffer' = r.buffer
           /\ rx' = r.rx
           /\ IF ~r.ok
              THEN RecvRaise(c, r.err) /\ UNCHANGED package
              ELSE /\ package' = r.data
                   /\ RecvGoto(c, IF r.data[1] = START THEN "recv_head" ELSE "recv")
    /\ UNCHANGED <<wire, tx, op, session, items, dev>>

\* _recv line 244: package += self._read(2)
RecvHead ==
    /\ pc = "recv_head"
    /\ LET r == _read(buffer, rx, 2, _conn = "open")
           c == [call EXCEPT !.read = TRUE]
       IN  /\ buffer' = r.buffer
           /\ rx' = r.rx
           /\ IF ~r.ok
              THEN RecvRaise(c, r.err) /\ UNCHANGED package
              ELSE /\ package' = package \o r.data
                   /\ RecvGoto(c, "recv_body")
    /\ UNCHANGED <<wire, tx, op, session, items, dev>>

\* _recv line 245: package += self._read(package[2] - 2)
RecvBody ==
    /\ pc = "recv_body"
    /\ LET r == _read(buffer, rx, package[3] - 2, _conn = "open")
           c == [call EXCEPT !.read = TRUE]
       IN  /\ buffer' = r.buffer
           /\ rx' = r.rx
           /\ IF ~r.ok
              THEN RecvRaise(c, r.err) /\ UNCHANGED package
              ELSE /\ package' = package \o r.data
                   /\ RecvGoto(c, "recv_tail")
    /\ UNCHANGED <<wire, tx, op, session, items, dev>>

\* Damaged without the comparison of the checksum
DamagedEndOnly(pkg, crc, end) == end # END

\* Damaged with the comparison of the type ahead of the validation
DamagedWhenAwaited(pkg, crc, end) ==
    pkg[2] = op.t /\ (crc # Sum(pkg) % 256 \/ end # END)

\* _recv line 247: the frame is damaged
Damaged(pkg, crc, end) == crc # Sum(pkg) % 256 \/ end # END

\* Awaited without the comparison of the type
AwaitedAny(pkg, package_type) == TRUE

\* _recv line 249: the frame is the one awaited
Awaited(pkg, package_type) == pkg[2] = package_type

\* _recv lines 246-251: crc, end = self._read(2), the validation, the filter
RecvTail ==
    /\ pc = "recv_tail"
    /\ LET r == _read(buffer, rx, 2, _conn = "open")
           c == [call EXCEPT !.read = TRUE]
       IN  /\ buffer' = r.buffer
           /\ rx' = r.rx
           /\ UNCHANGED package
           /\ IF ~r.ok
              THEN RecvRaise(c, r.err)
              ELSE IF Damaged(package, r.data[1], r.data[2])
              THEN RecvRaise(c, "GlovePacketError")
              ELSE IF Awaited(package, op.t)
              THEN RecvReturn(c, Drop(package, 3))
              ELSE RecvGoto(c, "recv")
    /\ UNCHANGED <<wire, tx, op, session, items, dev>>

(***************************************************************************)
(* The line of the codec specification: it carries each frame the host     *)
(* writes back to the host. A behaviour has either a clean line, a line    *)
(* that inserts stray bytes ahead of frames, or a line that inverts one    *)
(* bit of one frame.                                                       *)
(***************************************************************************)
Item(kind, t, p, bytes) == [kind |-> kind, t |-> t, p |-> p, bytes |-> bytes]

Put(its) ==
    /\ wire' = wire \o Flat(its)
    /\ items' = items \o its

HasItem(kind) == \E i \in 1..Len(items) : items[i].kind = kind

\* the frame arrives as written
LinePass(t, p) ==
    Put(<<Item("frame", t, p, Encode(t, p))>>)

\* positions of the payload and of the checksum in a frame
FlipPositions(frame) == 4 .. (Len(frame) - 1)

\* the frame arrives with one bit of its payload or checksum inverted
LineFlip(t, p) ==
    /\ ~HasItem("damaged") /\ ~HasItem("stray")
    /\ \E pos \in FlipPositions(Encode(t, p)), k \in 0..7 :
          Put(<<Item("damaged", t, p,
                     [Encode(t, p) EXCEPT ![pos] = FlipBit(@, k)])>>)

\* the frame arrives as written, behind a stray byte
LineStray(t, p) ==
    /\ ~HasItem("damaged")
    /\ \E b \in StrayBytes :
          Put(<<Item("stray", -1, None, <<b>>), Item("frame", t, p, Encode(t, p))>>)

\* the bytes on the wire reach the port
Deliver ==
    /\ wire # <<>>
    /\ rx' = rx \o wire
    /\ wire' = <<>>
    /\ UNCHANGED <<buffer, tx, pc, op, package, ret, cached, gen, session, call, items, dev>>

(***************************************************************************)
(* The state after construction: the handshake of __init__ is over, the    *)
(* glove has reported its id and label.                                    *)
(***************************************************************************)
\* the id and the label the glove reported at connect
ConnectId == Unpack_H(<<0, 7>>)
ConnectLabel == UntilNul(<<65, 0>>)

NoDev == [at |-> 1, mode |-> 0, id |-> ConnectId, label |-> ConnectLabel,
          calibrating |-> FALSE, stages |-> 0, samples |-> 0]

Init ==
    /\ buffer = <<>>
    /\ rx = <<>>
    /\ wire = <<>>
    /\ tx = <<>>
    /\ pc = "idle"
    /\ op = [name |-> "none", t |-> 0, p |-> None, arg |-> <<>>]
    /\ package = <<>>
    /\ ret = NoResult
    /\ _device_id = PyInt(ConnectId)
    /\ _label = ConnectLabel
    /\ gen = NoGen
    /\ mode = "off"
    /\ call = [start |-> 0, full |-> TRUE, writes |-> 0, wrote |-> 0,
               read |-> FALSE, recvs |-> 0, raised |-> "none"]
    /\ items = <<>>
    /\ dev = NoDev
    /\ _conn = "open"
    /\ scope = "none"

\* _send over the line of the codec specification
CodecSend ==
    \E t \in CodecTypes, p \in CodecPayloads :
        /\ _send(t, p, TRUE)
        /\ \/ LinePass(t, p)
           \/ LineFlip(t, p)
           \/ LineStray(t, p)
CodecRecv == \E t \in CodecTypes : _recv(t)

NextCodec ==
    \/ CodecSend
    \/ CodecRecv
    \/ RecvStart
    \/ RecvHead
    \/ RecvBody
    \/ RecvTail
    \/ Deliver

SpecCodec == Init /\ [][NextCodec]_vars

(***************************************************************************)
(* The damage specification: the line inverts one bit of the payload, the  *)
(* checksum or the end marker of one frame.                                *)
(***************************************************************************)
\* the bytes of a frame the line may damage: payload, checksum, end marker
DamagePositions(frame) == 4 .. Len(frame)

\* the bits the line may invert: the lowest and the highest of a byte
DamageBits == {0, 7}

\* the frame arrives with one bit inverted; this happens to one frame
LineDamage(t, p) ==
    /\ ~HasItem("damaged")
    /\ \E pos \in DamagePositions(Encode(t, p)), k \in DamageBits :
          Put(<<Item("damaged", t, p,
                     [Encode(t, p) EXCEPT ![pos] = FlipBit(@, k)])>>)

DamageSend ==
    \E t \in CodecTypes, p \in CodecPayloads :
        /\ _send(t, p, TRUE)
        /\ \/ LinePass(t, p)
           \/ LineDamage(t, p)

NextDamage ==
    \/ DamageSend
    \/ CodecRecv
    \/ RecvStart
    \/ RecvHead
    \/ RecvBody
    \/ RecvTail
    \/ Deliver

SpecDamage == Init /\ [][NextDamage]_vars

(***************************************************************************)
(* The length specification: the line replaces the length byte of one      *)
(* frame by another value; the checksum that follows is the sum of the     *)
(* bytes as they are on the wire.                                          *)
(***************************************************************************)
\* payloads of the length specification: none, and two bytes that read as a
\* checksum and an end marker
LengthPayloads == {<<>>, <<48, END>>}
\* values the length byte is replaced by
LengthBytes == {0, 1, 2, 3, 5}

\* the frame of type t with payload p and the length byte d
FrameWithLength(t, p, d) ==
    LET body == <<START, t, d>> \o p
    IN  body \o <<Sum(body) % 256, END>>

\* the frame arrives with a length byte that does not fit its payload
LineLength(t, p) ==
    /\ ~HasItem("mislength")
    /\ \E d \in LengthBytes \ {Len(p) + 2} :
          Put(<<Item("mislength", t, p, FrameWithLength(t, p, d))>>)

LengthSend ==
    \E t \in CodecTypes, p \in LengthPayloads :
        /\ _send(t, p, TRUE)
        /\ \/ LinePass(t, p)
           \/ LineLength(t, p)

NextLength ==
    \/ LengthSend
    \/ CodecRecv
    \/ RecvStart
    \/ RecvHead
    \/ RecvBody
    \/ RecvTail
    \/ Deliver

SpecLength == Init /\ [][NextLength]_vars

(***************************************************************************)
(* The termination specification: frames arrive as written, behind a stray *)
(* byte, or with a wrong length byte, and the statements of a _recv call   *)
(* in progress are executed one after the other.                           *)
(***************************************************************************)
\* the payload of the frames of the termination specification
LivePayloads == {<<48, END>>}

LiveSend ==
    \E t \in CodecTypes, p \in LivePayloads :
        /\ _send(t, p, TRUE)
        /\ \/ LinePass(t, p)
           \/ LineStray(t, p)
           \/ LineLength(t, p)

RecvStep == RecvStart \/ RecvHead \/ RecvBody \/ RecvTail

NextLive ==
    \/ LiveSend
    \/ CodecRecv
    \/ RecvStart
    \/ RecvHead
    \/ RecvBody
    \/ RecvTail
    \/ Deliver

SpecLive == Init /\ [][NextLive]_vars /\ WF_vars(RecvStep)

(***************************************************************************)
(* The stream specification: the bytes on the line reach the port a few at *)
(* a time, so that a _read may find some of the bytes it asks for.         *)
(***************************************************************************)
\* the first n bytes on the line reach the port
DeliverPart ==
    /\ wire # <<>>
    /\ \E n \in 1..Len(wire) :
          /\ rx' = rx \o Take(wire, n)
          /\ wire' = Drop(wire, n)
    /\ UNCHANGED <<buffer, tx, pc, op, package, ret, cached, gen, session, call, items, dev>>

StreamSend ==
    \E t \in CodecTypes, p \in LivePayloads :
        /\ _send(t, p, TRUE)
        /\ \/ LinePass(t, p)
           \/ LineLength(t, p)

NextStream ==
    \/ StreamSend
    \/ CodecRecv
    \/ RecvStart
    \/ RecvHead
    \/ RecvBody
    \/ RecvTail
    \/ DeliverPart

SpecStream == Init /\ [][NextStream]_vars

(***************************************************************************)
(* The frame-layout specification: _send alone, on type codes and payloads *)
(* whose bytes make the checksum wrap.                                     *)
(***************************************************************************)
\* type codes and payload bytes given to _send
EncTypes == {START, 255}
EncBytes == {0, 255}

\* all payloads of up to n bytes
RECURSIVE SeqsUpTo(_, _)
SeqsUpTo(S, n) ==
    IF n = 0 THEN {<<>>}
    ELSE LET shorter == SeqsUpTo(S, n - 1)
         IN  shorter \cup {Append(q, b) : q \in shorter, b \in S}

EncPayloads == {None} \cup SeqsUpTo(EncBytes, MaxLen)

EncodeSend ==
    \E t \in EncTypes, p \in EncPayloads, done \in BOOLEAN :
        /\ _send(t, p, done)
        /\ UNCHANGED <<wire, items>>

NextEncode == EncodeSend

SpecEncode == Init /\ [][NextEncode]_vars

(***************************************************************************)
(* The session operations.                                                 *)
(***************************************************************************)
\* ids and labels given to the setters
DeviceIds == {42, 258}
Labels == {<<66>>, <<67, 68>>}

\* _exec(t, p) called by the operation `caller`: the _send, then, when the
\* write completed, entry into _recv
_exec(caller, t, p, arg, done) ==
    /\ Begin(caller, t, p, arg)
    /\ Len(tx) < MaxExec
    /\ done => _conn = "open"
    /\ tx' = IF done THEN Append(tx, Written(t, p)) ELSE tx
    /\ IF done
       THEN /\ call' = [NewCall EXCEPT !.writes = 1, !.wrote = 1, !.recvs = 1]
            /\ Goto("recv")
       ELSE /\ call' = [NewCall EXCEPT !.writes = 1, !.raised = WriteError]
            /\ Finish(WriteError, <<>>)
    /\ UNCHANGED <<buffer, rx, wire, package, cached, gen, session, items, dev>>

\* the assignment glove.device_id = v
device_id_setter ==
    \E v \in DeviceIds, done \in BOOLEAN :
        _exec("device_id", 13, Pack_H(v), <<v>>, done)

\* the assignment glove.label = l
label_setter ==
    \E l \in Labels, done \in BOOLEAN :
        _exec("label", 17, Pack_16s(l), l, done)

\* the body of start_sampling(raw), lines 122-128: one _send
StartSampling(raw, done) ==
    /\ ConnWrite(NewCall, 10, <<IF raw THEN 3 ELSE 1>>, done)
    /\ IF done THEN Finish("ok", <<>>) ELSE Finish(WriteError, <<>>)
    /\ mode' = IF ~done THEN mode ELSE IF raw THEN "raw" ELSE "quat"

\* start_sampling(raw)
start_sampling ==
    \E raw \in BOOLEAN, done \in BOOLEAN :
        /\ Begin("start_sampling", 10, <<IF raw THEN 3 ELSE 1>>, <<>>)
        /\ Len(tx) < MaxCmd
        /\ StartSampling(raw, done)
        /\ UNCHANGED <<buffer, rx, wire, package, cached, gen, items, dev,
                       _conn, scope>>

\* stop_sampling with its two frames in the other order
StopFramesSwapped == <<Written(11, None), Written(10, <<0>>)>>

\* the two writes of stop_sampling, lines 132 and 134
StopFrames == <<Written(10, <<0>>), Written(11, None)>>

\* a _send of stop_sampling raises: __init__, when it is the caller, turns
\* the error into GloveConnectionError (lines 45-49)
StopRaise(caller) ==
    Finish(IF caller = "__init__" THEN InitExcept(WriteError) ELSE WriteError, <<>>)

\* stop_sampling line 132, run for `caller` by a call whose record is c:
\* self._send(0x0A, bytes([0x00])); when the write completed the call goes
\* on to the wait of line 133
StopFirst(c, caller, done) ==
    /\ ConnWrite(c, StopFrames[1].t, StopFrames[1].p, done)
    /\ IF done THEN Goto("stop_sleep1") ELSE StopRaise(caller)
    /\ mode' = IF done THEN "off" ELSE mode

\* stop_sampling(): the call and its line 132
stop_sampling ==
    \E done \in BOOLEAN :
        /\ Begin("stop_sampling", 10, <<0>>, <<>>)
        /\ Len(tx) + 1 < MaxCmd
        /\ StopFirst(NewCall, "stop_sampling", done)
        /\ UNCHANGED <<buffer, rx, wire, package, cached, gen, items, dev,
                       _conn, scope>>

\* stop_sampling lines 133-134: the wait of 0.1 s is over, self._send(0x0B);
\* when the write completed the call goes on to the wait of line 135
StopSecond ==
    /\ pc = "stop_sleep1"
    /\ \E done \in BOOLEAN :
          /\ ConnWrite(call, StopFrames[2].t, StopFrames[2].p, done)
          /\ IF done THEN Goto("stop_sleep2") ELSE StopRaise(op.name)
    /\ UNCHANGED <<buffer, rx, wire, op, package, cached, gen, session, items, dev>>

\* stop_sampling line 135: the second wait is over and stop_sampling
\* returns, to its caller or, in __init__, to line 34
StopReturn ==
    /\ pc = "stop_sleep2"
    /\ IF op.name = "__init__" THEN Goto("init_exec") ELSE Finish("ok", <<>>)
    /\ UNCHANGED <<buffer, rx, wire, tx, op, package, cached, gen, session,
                   call, items, dev>>

\* next_sample(): entry into _recv(0x0A)
next_sample ==
    /\ Begin("next_sample", 10, None, <<>>)
    /\ call' = [NewCall EXCEPT !.recvs = 1]
    /\ Goto("recv")
    /\ UNCHANGED <<buffer, rx, wire, tx, package, cached, gen, session, items, dev>>

\* calibration() and the first next() on the generator: the _send, stage = 0,
\* and entry into the loop
calibration ==
    \E done \in BOOLEAN :
        /\ Begin("calibration", 49, None, <<>>)
        /\ Len(tx) < MaxCmd
        /\ ConnWrite([NewCall EXCEPT !.recvs = IF done THEN 1 ELSE 0], 49, None, done)
        /\ gen' = [state |-> IF done THEN "running" ELSE "done", stage |-> 0,
                   yielded |-> <<>>, from |-> Consumed]
        /\ IF done /\ CalContinue(0)
           THEN Goto("recv")
           ELSE Finish(IF done THEN "StopIteration" ELSE WriteError, <<>>)
        /\ UNCHANGED <<buffer, rx, wire, package, cached, session, items, dev>>

\* next() on the suspended generator: the loop test, then _recv or the end
calibration_next ==
    /\ gen.state = "suspended"
    /\ Begin("calibration", 49, None, <<>>)
    /\ IF CalContinue(gen.stage)
       THEN /\ gen' = [gen EXCEPT !.state = "running"]
            /\ call' = [NewCall EXCEPT !.recvs = 1]
            /\ Goto("recv")
       ELSE /\ gen' = [gen EXCEPT !.state = "done"]
            /\ call' = NewCall
            /\ Finish("StopIteration", <<>>)
    /\ UNCHANGED <<buffer, rx, wire, tx, package, cached, session, items, dev>>

\* `with glove.sampling(raw):` is entered: the generator of lines 185-186
\* runs start_sampling and yields the sample iterator; when start_sampling
\* raises, the with statement is not entered
sampling ==
    \E raw \in BOOLEAN, done \in BOOLEAN :
        /\ scope # "entered"
        /\ Begin("sampling", 10, <<IF raw THEN 3 ELSE 1>>, <<>>)
        /\ Len(tx) < MaxCmd
        /\ StartSampling(raw, done)
        /\ scope' = IF done THEN "entered" ELSE scope
        /\ UNCHANGED <<buffer, rx, wire, package, cached, gen, items, dev, _conn>>

\* next_sample() called in the body of the with statement, directly or by
\* the sample iterator (line 183)
scoped_next_sample == scope = "entered" /\ next_sample

\* what the generator of sampling() does when the with statement is left,
\* lines 186-187: resumed by next() it runs stop_sampling; resumed by
\* throw(), when an exception leaves the body, the exception is raised at the
\* yield, which no try statement encloses
ScopeExit(raised) == IF raised THEN "propagate" ELSE "stop_sampling"

\* the with statement is left: by the end of its body, or by the exception
\* that the last next_sample of the body raised
sampling_exit ==
    \E raised \in BOOLEAN, done \in BOOLEAN :
        /\ scope = "entered"
        /\ raised => (op.name = "next_sample" /\ ret.kind \notin {"none", "ok"})
        /\ Begin("sampling_exit", 10, <<0>>, <<raised>>)
        /\ Len(tx) + 1 < MaxCmd
        /\ scope' = "left"
        /\ IF ScopeExit(raised) = "stop_sampling"
           THEN StopFirst(NewCall, "sampling_exit", done)
           ELSE /\ ~done
                /\ Finish(ret.kind, <<>>)
                /\ call' = [NewCall EXCEPT !.raised = ret.kind]
                /\ UNCHANGED <<tx, mode>>
        /\ UNCHANGED <<buffer, rx, wire, package, cached, gen, items, dev, _conn>>

\* a fire-and-forget command: one _send and nothing else
Command(name, t, done) ==
    /\ Begin(name, t, None, <<>>)
    /\ Len(tx) < MaxCmd
    /\ ConnWrite(NewCall, t, None, done)
    /\ IF done THEN Finish("ok", <<>>) ELSE Finish(WriteError, <<>>)

\* reboot(), lines 198-200
reboot ==
    \E done \in BOOLEAN :
        /\ Command("reboot", 14, done)
        /\ UNCHANGED <<buffer, rx, wire, package, cached, gen, session, items, dev>>

\* turn_off(), lines 202-205: the _send, and disconnect() when it returned
turn_off ==
    \E done \in BOOLEAN :
        /\ Command("turn_off", 64, done)
        /\ _conn' = IF done THEN "closed" ELSE _conn
        /\ UNCHANGED <<buffer, rx, wire, package, cached, gen, mode, scope, items, dev>>

\* disconnect(), lines 207-209, called directly or by __exit__ (line 221):
\* self._conn.close()
disconnect ==
    \E by \in {"disconnect", "__exit__"} :
        /\ Begin(by, 0, None, <<>>)
        /\ call' = NewCall
        /\ Finish("ok", <<>>)
        /\ _conn' = "closed"
        /\ UNCHANGED <<buffer, rx, wire, tx, package, cached, gen, mode, scope,
                       items, dev>>

(***************************************************************************)
(* set_vibro_feedback. Levels are counted in thousandths.                  *)
(***************************************************************************)
\* a Python list
PyList(s) == [type |-> "list", items |-> s]

\* bytes(l) for a list l of Python values: the bytes, or the TypeError for
\* an element that is not an integer, or the ValueError for an integer
\* outside range(256)
PyBytes(l) ==
    IF \E i \in 1..Len(l) : l[i].type # "int"
    THEN [err |-> "TypeError", bytes |-> <<>>]
    ELSE IF \E i \in 1..Len(l) : l[i].items[1] \notin 0..255
    THEN [err |-> "ValueError", bytes |-> <<>>]
    ELSE [err |-> "none", bytes |-> [i \in 1..Len(l) |-> l[i].items[1]]]

\* line 195: int(min(max(i, 0.0), 1.0) * 140 + 110) for the level i / 1000
VibroValue(i) == (Min(Max(i, 0), 1000) * 140 + 110000) \div 1000

\* line 196: the argument of bytes(), [values] + [0x00]
VibroList(levels) ==
    <<PyList([k \in 1..Len(levels) |-> PyInt(VibroValue(levels[k]))])>> \o <<PyInt(0)>>

\* the level arrays given to set_vibro_feedback
VibroLevels == {<<0, 0, 0, 0, 0>>, <<-500, 4, 500, 1000, 1500>>}

\* set_vibro_feedback(levels), lines 189-196
set_vibro_feedback ==
    \E levels \in VibroLevels, done \in BOOLEAN :
        LET b == PyBytes(VibroList(levels))
        IN  /\ Begin("set_vibro_feedback", 96, b.bytes, levels)
            /\ Len(tx) < MaxCmd
            /\ IF b.err # "none"
               THEN /\ ~done
                    /\ Finish(b.err, <<>>)
                    /\ call' = [NewCall EXCEPT !.raised = b.err]
                    /\ UNCHANGED tx
               ELSE /\ ConnWrite(NewCall, 96, b.bytes, done)
                    /\ IF done THEN Finish("ok", <<>>) ELSE Finish(WriteError, <<>>)
            /\ UNCHANGED <<buffer, rx, wire, package, cached, gen, session, items, dev>>

(***************************************************************************)
(* The glove: it takes the frames the host wrote in order and answers as   *)
(* the protocol table says.                                                *)
(***************************************************************************)
\* the glove puts one frame on the wire
DevPut(kind, t, p, bytes) ==
    /\ wire' = wire \o bytes
    /\ items' = Append(items, Item(kind, t, p, bytes))

\* a frame with the lowest bit of its checksum inverted
BadChecksum(frame) == [frame EXCEPT ![Len(frame) - 1] = FlipBit(@, 0)]

\* the glove answers a set-id (0x0D) or set-label (0x11) request: it takes
\* the new value or keeps its own, and echoes the value it now has; the echo
\* may arrive damaged
DevEcho ==
    /\ dev.at <= Len(tx)
    /\ tx[dev.at].t \in {13, 17}
    /\ \E accept \in BOOLEAN, good \in BOOLEAN :
          LET f  == tx[dev.at]
              id == IF f.t = 13 /\ accept THEN Unpack_H(f.p) ELSE dev.id
              lb == IF f.t = 17 /\ accept THEN UntilNul(f.p) ELSE dev.label
              p  == IF f.t = 13 THEN Pack_H(id) ELSE Pack_16s(lb)
          IN  /\ dev' = [dev EXCEPT !.at = @ + 1, !.id = id, !.label = lb]
              /\ DevPut(IF good THEN "frame" ELSE "damaged", f.t, p,
                        IF good THEN Encode(f.t, p) ELSE BadChecksum(Encode(f.t, p)))
    /\ UNCHANGED <<buffer, rx, tx, pc, op, package, ret, cached, gen, session, call>>

\* the glove takes a sampling-mode (0x0A) or stop (0x0B) frame
DevMode ==
    /\ dev.at <= Len(tx)
    /\ tx[dev.at].t \in {10, 11}
    /\ dev' = [dev EXCEPT !.at = @ + 1,
                          !.mode = IF tx[dev.at].t = 10 THEN tx[dev.at].p[1] ELSE 0]
    /\ UNCHANGED <<buffer, rx, wire, tx, pc, op, package, ret, cached, gen, session,
                   call, items>>

\* the glove takes a reboot (0x0E), power-off (0x40) or vibro (0x60) frame;
\* it answers none of them, and the first two end its streaming
DevCommand ==
    /\ dev.at <= Len(tx)
    /\ tx[dev.at].t \in {14, 64, 96}
    /\ dev' = [dev EXCEPT !.at = @ + 1,
                          !.mode = IF tx[dev.at].t = 96 THEN @ ELSE 0]
    /\ UNCHANGED <<buffer, rx, wire, tx, pc, op, package, ret, cached, gen, session,
                   call, items>>

\* the payload of a streamed sample of the given subtype: the glove's id,
\* a clock of 1000 ms, and zero readings
SamplePayload(subtype) ==
    <<subtype>> \o Pack_H(dev.id) \o <<0, 0, 3, 232>>
      \o [i \in 1..((IF IsRaw(subtype) THEN SampleRawBlock ELSE SampleQuatBlock)
                      + SampleTail) |-> 0]

\* the glove streams one sample while its sampling mode is on
DevSample ==
    /\ dev.mode \in {1, 3}
    /\ dev.samples < MaxSamples
    /\ dev' = [dev EXCEPT !.samples = @ + 1]
    /\ DevPut("frame", 10, SamplePayload(dev.mode),
              Encode(10, SamplePayload(dev.mode)))
    /\ UNCHANGED <<buffer, rx, tx, pc, op, package, ret, cached, gen, session, call>>

\* the glove takes the calibration-start (0x31) frame
DevCalibrate ==
    /\ dev.at <= Len(tx)
    /\ tx[dev.at].t = 49
    /\ dev' = [dev EXCEPT !.at = @ + 1, !.calibrating = TRUE]
    /\ UNCHANGED <<buffer, rx, wire, tx, pc, op, package, ret, cached, gen, session,
                   call, items>>

\* stages the glove reports: progress, success, failure
Stages == {10, 50, 100, 255}

\* the glove reports a calibration stage; 100 and 255 end the calibration
DevStage ==
    /\ dev.calibrating
    /\ dev.stages < MaxStages
    /\ \E stage \in Stages :
          /\ dev' = [dev EXCEPT !.stages = @ + 1,
                                !.calibrating = stage \notin {100, 255}]
          /\ DevPut("frame", 49, <<stage>>, Encode(49, <<stage>>))
    /\ UNCHANGED <<buffer, rx, tx, pc, op, package, ret, cached, gen, session, call>>

(***************************************************************************)
(* Construction: Glove.__init__ opens the port, stops the sampling, and    *)
(* asks the glove for its label (0x11), firmware (0x13) and info (0x0C).   *)
(***************************************************************************)
\* the value of an attribute that has not been assigned
Unset == [type |-> "unset", items |-> <<>>]

\* the state before construction, with a glove of some id and label at the
\* other end of the line, idle or still streaming quaternion samples
InitConnect ==
    /\ buffer = <<>>
    /\ rx = <<>>
    /\ wire = <<>>
    /\ tx = <<>>
    /\ pc = "init"
    /\ op = [name |-> "__init__", t |-> 0, p |-> None, arg |-> <<>>]
    /\ package = <<>>
    /\ ret = NoResult
    /\ _device_id = Unset
    /\ _label = <<>>
    /\ gen = NoGen
    /\ mode = "off"
    /\ call = [start |-> 0, full |-> TRUE, writes |-> 0, wrote |-> 0,
               read |-> FALSE, recvs |-> 0, raised |-> "none"]
    /\ items = <<>>
    /\ dev \in {[NoDev EXCEPT !.id = i, !.label = l, !.mode = m] :
                   i \in DeviceIds \cup {ConnectId}, l \in Labels \cup {ConnectLabel},
                   m \in {0, 1}}
    /\ _conn = "unopened"
    /\ scope = "none"

\* __init__ lines 27-30: serial.Serial(...) opens the port or raises
\* SerialException; self._buffer = b''
__init__ ==
    /\ pc = "init"
    /\ \E opened \in BOOLEAN :
          /\ _conn' = IF opened THEN "open" ELSE _conn
          /\ call' = [call EXCEPT !.raised = IF opened THEN "none"
                                             ELSE "SerialException"]
          /\ IF opened THEN Goto("stop_send1")
             ELSE Finish(InitExcept("SerialException"), <<>>)
    /\ buffer' = <<>>
    /\ UNCHANGED <<rx, wire, tx, op, package, cached, gen, mode, items, dev, scope>>

\* __init__ line 32: self.stop_sampling(), up to its first wait
InitStop ==
    /\ pc = "stop_send1"
    /\ \E done \in BOOLEAN : StopFirst(call, "__init__", done)
    /\ UNCHANGED <<buffer, rx, wire, op, package, cached, gen, items, dev,
                   _conn, scope>>

\* __init__ line 34, up to the _recv: the _send of self._exec(0x11)
InitExec ==
    /\ pc = "init_exec"
    /\ \E done \in BOOLEAN :
          /\ ConnWrite([call EXCEPT !.recvs = IF done THEN 1 ELSE 0], 17, None, done)
          /\ IF done THEN Goto("recv") ELSE Finish(InitExcept(WriteError), <<>>)
    /\ op' = [op EXCEPT !.t = 17]
    /\ UNCHANGED <<buffer, rx, wire, package, cached, gen, session, items, dev>>

\* the field of the info reply that holds the device id: info[2] of
\* struct.unpack('>BBHIIIBB', ...)
InfoSize == 18
InfoId(info) == Unpack_H(SubSeq(info, 3, 4))

\* __init__ lines 34-43, from the return of one _exec to the next _recv: the
\* reply is stored and the next request is written
InitReply ==
    /\ pc = "init_reply"
    /\ \E done \in BOOLEAN :
          LET reply == ret.val
              next  == IF op.t = 17 THEN 19 ELSE 12
              more  == op.t # 12
              bad   == CASE op.t = 19 -> IF Len(reply) < 3 THEN "IndexError" ELSE "none"
                         [] op.t = 12 -> IF Len(reply) # InfoSize THEN "struct.error" ELSE "none"
                         [] OTHER -> "none"
          IN  /\ _label' = IF op.t = 17 THEN Stored_label(reply, <<>>) ELSE _label
              /\ _device_id' = IF op.t = 12 /\ bad = "none"
                               THEN PyInt(InfoId(reply)) ELSE _device_id
              /\ IF bad # "none"
                 THEN /\ Finish(InitExcept(bad), <<>>)
                      /\ UNCHANGED <<tx, call, op>>
                 ELSE IF ~more
                 THEN /\ Finish("ok", <<>>)
                      /\ UNCHANGED <<tx, call, op>>
                 ELSE /\ op' = [op EXCEPT !.t = next]
                      /\ ConnWrite([call EXCEPT !.recvs = IF done THEN @ + 1 ELSE @],
                                   next, None, done)
                      /\ IF done THEN Goto("recv")
                         ELSE Finish(InitExcept("GloveTimeoutError"), <<>>)
    /\ UNCHANGED <<buffer, rx, wire, package, gen, session, items, dev>>

\* what the glove reports as its firmware version
Firmware == <<1, 2, 3>>

\* the glove answers a request of the handshake; the answer may arrive
\* damaged
DevHandshake ==
    /\ dev.at <= Len(tx)
    /\ tx[dev.at].t \in {17, 19, 12}
    /\ tx[dev.at].p = None
    /\ \E good \in BOOLEAN :
          LET t == tx[dev.at].t
              p == CASE t = 17 -> Pack_16s(dev.label)
                     [] t = 19 -> Firmware
                     [] OTHER  -> <<1, 0>> \o Pack_H(dev.id) \o [i \in 1..14 |-> 0]
          IN  /\ dev' = [dev EXCEPT !.at = @ + 1]
              /\ DevPut(IF good THEN "frame" ELSE "damaged", t, p,
                        IF good THEN Encode(t, p) ELSE BadChecksum(Encode(t, p)))
    /\ UNCHANGED <<buffer, rx, tx, pc, op, package, ret, cached, gen, session, call>>

NextConnect ==
    \/ __init__
    \/ InitStop
    \/ StopSecond
    \/ StopReturn
    \/ InitExec
    \/ InitReply
    \/ RecvStart
    \/ RecvHead
    \/ RecvBody
    \/ RecvTail
    \/ DevMode
    \/ DevSample
    \/ DevHandshake
    \/ Deliver

SpecConnect == InitConnect /\ [][NextConnect]_vars

(***************************************************************************)
(* The session specifications: setters, sampling, calibration.             *)
(***************************************************************************)
NextSetters ==
    \/ device_id_setter
    \/ label_setter
    \/ RecvStart
    \/ RecvHead
    \/ RecvBody
    \/ RecvTail
    \/ DevEcho
    \/ Deliver

SpecSetters == Init /\ [][NextSetters]_vars

NextSampling ==
    \/ start_sampling
    \/ stop_sampling
    \/ StopSecond
    \/ StopReturn
    \/ next_sample
    \/ RecvStart
    \/ RecvHead
    \/ RecvBody
    \/ RecvTail
    \/ DevMode
    \/ DevSample
    \/ Deliver

(***************************************************************************)
(* The decoder specification: the glove streams samples built from known   *)
(* readings, and next_sample decodes them.                                 *)
(***************************************************************************)
\* the bytes of a sequence of 16-bit words, big-endian
WordBytes(w) ==
    [j \in 1..(2 * Len(w)) |->
        IF j % 2 = 1 THEN w[(j + 1) \div 2] \div 256 ELSE w[j \div 2] % 256]

\* struct.pack('>' + 'h' * n, ...) and struct.pack('>' + 'i' * n, ...)
PackAll_h(vals) == WordBytes([k \in 1..Len(vals) |-> (vals[k] + 65536) % 65536])
PackAll_i(vals) ==
    WordBytes([j \in 1..(2 * Len(vals)) |->
                 IF j % 2 = 1
                 THEN ((vals[(j + 1) \div 2] \div 65536) + 65536) % 65536
                 ELSE vals[j \div 2] % 65536])

\* the subtype bytes the glove puts in front of a sample: quaternions, raw
\* IMU data, and a value that is neither
SampleSubtypes == {1, 2, 3}

\* the 18 readings of a raw block and the 8 of a quaternion block
RawValues == <<16384, -16384, 32767, 8192, -32768, 1, 7, -7, 0,
               -1, -2, -3, 4, 5, 6, 300, -300, 32767>>
QuatValues == <<65536, -65536, 32768, 0, 1, -1, 1073741824, -1073741824>>

\* the clock of the samples, in ms
SampleClock == 1500

\* two tails of 24 readings, indexed from 0, that differ at the indices 11
\* and 13 only; the pressures at 14 and 15 are 0 and 999
TailA == [i \in 0..23 |-> CASE i = 14 -> 0 [] i = 15 -> 999 [] OTHER -> 100 + i]
TailB == [i \in 0..23 |-> CASE i = 11 -> 7 [] i = 13 -> 65535 [] OTHER -> TailA[i]]
SampleTails == {TailA, TailB}

\* the payload of the sample with the given subtype byte and tail
MakeSample(subtype, tail) ==
    <<subtype>> \o Pack_H(ConnectId)
      \o WordBytes(<<SampleClock \div 65536, SampleClock % 65536>>)
      \o (IF subtype = 3 THEN PackAll_h(RawValues) ELSE PackAll_i(QuatValues))
      \o WordBytes([j \in 1..24 |-> tail[j - 1]])

\* the glove streams one sample
DecodeFeed ==
    /\ dev.samples < MaxSamples
    /\ \E subtype \in SampleSubtypes, tail \in SampleTails :
          DevPut("frame", 10, MakeSample(subtype, tail),
                 Encode(10, MakeSample(subtype, tail)))
    /\ dev' = [dev EXCEPT !.samples = @ + 1]
    /\ UNCHANGED <<buffer, rx, tx, pc, op, package, ret, cached, gen, session, call>>

NextDecode ==
    \/ DecodeFeed
    \/ next_sample
    \/ RecvStart
    \/ RecvHead
    \/ RecvBody
    \/ RecvTail
    \/ Deliver

SpecDecode == Init /\ [][NextDecode]_vars

SpecSampling == Init /\ [][NextSampling]_vars

NextScope ==
    \/ sampling
    \/ scoped_next_sample
    \/ sampling_exit
    \/ StopSecond
    \/ StopReturn
    \/ RecvStart
    \/ RecvHead
    \/ RecvBody
    \/ RecvTail
    \/ DevMode
    \/ DevSample
    \/ Deliver

SpecScope == Init /\ [][NextScope]_vars

NextClose ==
    \/ start_sampling
    \/ next_sample
    \/ set_vibro_feedback
    \/ reboot
    \/ turn_off
    \/ disconnect
    \/ RecvStart
    \/ RecvHead
    \/ RecvBody
    \/ RecvTail
    \/ DevMode
    \/ DevCommand
    \/ DevSample
    \/ Deliver

SpecClose == Init /\ [][NextClose]_vars

NextCalibration ==
    \/ calibration
    \/ calibration_next
    \/ RecvStart
    \/ RecvHead
    \/ RecvBody
    \/ RecvTail
    \/ DevCalibrate
    \/ DevStage
    \/ Deliver

SpecCalibration == Init /\ [][NextCalibration]_vars

(***************************************************************************)
(* The stream as the line built it, for stating what _recv must return.    *)
(***************************************************************************)
\* the stream offset at which item i ends (0 for i = 0)
ItemEnd(i) == TotalLen(SubSeq(items, 1, i))

\* the stream that follows item i
After(i) == Flat(SubSeq(items, i + 1, Len(items)))

\* the bytes read and not yet consumed, then those still to be read
Pending == buffer \o rx \o wire

\* the payload _recv returns for the package_data given to _send
Bytes(p) == IF p = None THEN <<>> ELSE p

\* a call of _recv has ended
RecvEnded == pc = "idle" /\ op.name = "_recv" /\ ret.kind # "none"

\* the call started with exactly k items consumed
StartedAt(k) == k \in 0..Len(items) /\ call.start = ItemEnd(k)

\* item i is one _recv(t) passes over: a stray byte or a frame of another type
Skipped(i, t) ==
    \/ items[i].kind = "stray"
    \/ items[i].kind = "frame" /\ items[i].t # t

\* the call started at item boundary k and item i is the first after k that
\* _recv(t) does not pass over
FirstStop(k, i, t) ==
    /\ StartedAt(k)
    /\ i \in (k + 1)..Len(items)
    /\ \A j \in (k + 1)..(i - 1) : Skipped(j, t)
    /\ ~Skipped(i, t)

\* C1: round trip. When the frame written by _send(t, p) is all that is
\* left of the stream, _recv(t) raises nothing but a timeout while the frame
\* has not arrived, returns p (b'' for an absent payload) once it has, and
\* leaves the buffer empty.
C1_RoundTrip ==
    (RecvEnded /\ items # <<>> /\ StartedAt(Len(items) - 1)
       /\ items[Len(items)].kind = "frame" /\ items[Len(items)].t = op.t)
    => /\ ret.kind \in {"ok", "GloveTimeoutError"}
       /\ call.full => ret.kind = "ok"
       /\ ret.kind = "ok" =>
             /\ ret.val = Bytes(items[Len(items)].p)
             /\ buffer = <<>>
             /\ Pending = <<>>

C1_Witness ==
    /\ RecvEnded /\ Len(items) = 1 /\ StartedAt(0)
    /\ items[1].kind = "frame" /\ items[1].t = op.t
    /\ items[1].p = <<START, END>>
    /\ ret = [kind |-> "ok", val |-> <<START, END>>]

\* C2: corruption and resync. A frame with one bit of its payload or checksum
\* inverted makes the _recv call that reaches it raise GlovePacketError with
\* the whole frame consumed, and the next _recv(t) returns the payload of the
\* well-formed frame of type t that follows it.
C2_Resync ==
    \A i \in 1..Len(items) :
        items[i].kind = "damaged" =>
          /\ \A k \in 0..(i - 1) :
                (RecvEnded /\ FirstStop(k, i, op.t) /\ ret.kind # "GloveTimeoutError")
                => /\ ret.kind = "GlovePacketError"
                   /\ Pending = After(i)
          /\ (RecvEnded /\ StartedAt(i) /\ i < Len(items)
                 /\ items[i + 1].kind = "frame" /\ items[i + 1].t = op.t)
             => /\ ret.kind \in {"ok", "GloveTimeoutError"}
                /\ call.full => ret.kind = "ok"
                /\ ret.kind = "ok" =>
                      ret.val = Bytes(items[i + 1].p) /\ Pending = After(i + 1)

C2_Witness ==
    /\ RecvEnded /\ Len(items) = 2 /\ StartedAt(1)
    /\ items[1].kind = "damaged" /\ items[1].p = <<START, END>>
    /\ items[1].bytes[4] # START
    /\ items[2].kind = "frame" /\ items[2].t = op.t
    /\ ret = [kind |-> "ok", val |-> Bytes(items[2].p)]

\* C3: type filtering. On a stream of well-formed frames and stray bytes,
\* _recv(t) returns the payload of the first frame of type t, raises no
\* packet error on the way, and every byte behind that frame is still in the
\* buffer or the transport.
C3_TypeFilter ==
    \A k \in 0..Len(items), i \in 1..Len(items) :
        (RecvEnded /\ ~HasItem("damaged") /\ FirstStop(k, i, op.t))
        => /\ ret.kind \in {"ok", "GloveTimeoutError"}
           /\ call.full => ret.kind = "ok"
           /\ ret.kind = "ok" =>
                 ret.val = Bytes(items[i].p) /\ Pending = After(i)

C3_Witness ==
    /\ RecvEnded /\ ~HasItem("damaged") /\ StartedAt(0) /\ Len(items) = 4
    /\ items[1].kind = "stray" /\ items[2].kind = "frame" /\ items[2].t # op.t
    /\ items[3].kind = "stray" /\ items[4].kind = "frame" /\ items[4].t = op.t
    /\ ret = [kind |-> "ok", val |-> Bytes(items[4].p)]
    /\ Pending = <<>>

(***************************************************************************)
(* Command execution and the setters.                                      *)
(***************************************************************************)
\* item k is the last one consumed
LastConsumed(k) == k \in 1..Len(items) /\ ItemEnd(k) = Consumed

\* a call of a setter has ended
SetterEnded(name) == pc = "idle" /\ op.name = name /\ ret.kind # "none"

\* C4: no retries in command execution. A call of _exec makes one write,
\* before any read, and one _recv when the write completed; an error raised
\* by that _recv is the error the caller gets, with no further write and no
\* further _recv.
C4_NoRetry ==
    op.name \in ExecCallers =>
       /\ call.writes = 1
       /\ call.recvs = call.wrote
       /\ call.wrote = 1 => tx # <<>> /\ tx[Len(tx)] = Written(op.t, op.p)
       /\ call.read => call.wrote = 1
       /\ pc = "idle" => ret.kind # "none"
       /\ (pc = "idle" /\ call.raised # "none") => ret.kind = call.raised

C4_Witness ==
    /\ SetterEnded("device_id")
    /\ call.raised = "GlovePacketError" /\ ret.kind = "GlovePacketError"
    /\ call.writes = 1 /\ call.recvs = 1
    /\ Len(tx) = 1

\* C9: device-id setter. After device_id = v has succeeded with the glove
\* echoing v, the property reads the integer v, the kind of value it held
\* after connect.
C9_SetterStoresInt ==
    (SetterEnded("device_id") /\ ret.kind = "ok"
       /\ \E k \in 1..Len(items) :
             LastConsumed(k) /\ items[k].kind = "frame" /\ items[k].t = 13
               /\ items[k].p = Pack_H(op.arg[1]))
    => _device_id = PyInt(op.arg[1])

\* C10: setters are never optimistic. A cached field changes only in the
\* step in which the echo frame of that setter's type has been received and
\* validated, and then to the value that frame carries; a setter that fails
\* leaves both fields as they were.
C10_NeverOptimistic ==
    [][ /\ _device_id' # _device_id =>
             /\ op.name = "device_id" /\ pc = "recv_tail" /\ ret'.kind = "ok"
             /\ \E k \in 1..Len(items) :
                   /\ ItemEnd(k) = Consumed'
                   /\ items[k].kind = "frame" /\ items[k].t = 13
                   /\ _device_id'.items = <<Unpack_H(items[k].p)>>
        /\ _label' # _label =>
             /\ op.name = "label" /\ pc = "recv_tail" /\ ret'.kind = "ok"
             /\ \E k \in 1..Len(items) :
                   /\ ItemEnd(k) = Consumed'
                   /\ items[k].kind = "frame" /\ items[k].t = 17
                   /\ _label' = UntilNul(items[k].p)
        /\ (ret'.kind \notin {"none", "ok"} /\ ret' # ret) =>
             UNCHANGED <<_device_id, _label>>
      ]_vars

\* a setter has stored an echo that differs from the value it asked for
C10_Witness ==
    /\ SetterEnded("device_id") /\ ret.kind = "ok"
    /\ _device_id.items # <<op.arg[1]>>
    /\ _device_id.items = <<ConnectId>>
    /\ _label = ConnectLabel

(***************************************************************************)
(* Sampling.                                                               *)
(***************************************************************************)
\* next_sample has returned a GloveSample
SampleReturned == pc = "idle" /\ op.name = "next_sample" /\ ret.kind = "ok"

\* C5: next_sample is gated by the session state: it returns a sample only
\* while the session is streaming, never while it is idle.
C5_GatedByState == SampleReturned => mode # "off"

\* C6: the sample returned by next_sample has the variant of the session's
\* current streaming mode.
C6_VariantIsMode == (SampleReturned /\ mode # "off") => ret.val[1].variant = mode

(***************************************************************************)
(* Calibration.                                                            *)
(***************************************************************************)
\* the stages carried by the calibration frames among the items
RECURSIVE StagesOf(_)
StagesOf(its) ==
    IF its = <<>> THEN <<>>
    ELSE (IF Head(its).kind = "frame" /\ Head(its).t = 49
          THEN <<Head(its).p[1]>> ELSE <<>>) \o StagesOf(Tail(its))

\* the stages of the frames after item k0 up to item k1
StagesRead(k0, k1) == StagesOf(SubSeq(items, k0 + 1, k1))

\* the generator has run from the end of item k0 to the end of item k1
GenSpan(k0, k1) ==
    /\ k0 \in 0..Len(items) /\ k1 \in 1..Len(items) /\ k0 < k1
    /\ ItemEnd(k0) = gen.from
    /\ ItemEnd(k1) = Consumed

\* next() on the calibration generator has ended in `kind`
CalEnded(kind) == pc = "idle" /\ op.name = "calibration" /\ ret.kind = kind

Elems(q) == {q[i] : i \in 1..Len(q)}

\* C7 as stated: calibration() yields the stages before the terminal 100 and
\* not the 100 itself.
C7_FinalNotYielded ==
    CalEnded("StopIteration") =>
       \E k0 \in 0..Len(items), k1 \in 1..Len(items) :
          /\ GenSpan(k0, k1)
          /\ items[k1].p = <<100>>
          /\ gen.yielded = StagesRead(k0, k1 - 1)

\* C7 as the code has it: calibration() yields every stage it reads, the
\* terminal 100 included and last, then ends, and nothing behind the
\* stage-100 frame has been consumed.
C7_YieldsThroughFinal ==
    CalEnded("StopIteration") =>
       \E k0 \in 0..Len(items), k1 \in 1..Len(items) :
          /\ GenSpan(k0, k1)
          /\ items[k1].p = <<100>>
          /\ gen.yielded = StagesRead(k0, k1)
          /\ \A i \in 1..(Len(gen.yielded) - 1) : gen.yielded[i] \notin {100, 255}
          /\ Pending = After(k1)
          /\ gen.state = "done"

C7_Witness ==
    /\ CalEnded("StopIteration")
    /\ gen.yielded = <<10, 50, 100>>
    /\ Len(items) = 3

\* C8: calibration failure. A stage frame carrying 255 makes the generator
\* raise GloveError after it has yielded the stages read before it; 255 is
\* not yielded, the generator is finished and nothing behind the 255 frame
\* has been consumed.
C8_FailureStops ==
    /\ CalEnded("GloveError") =>
         \E k0 \in 0..Len(items), k1 \in 1..Len(items) :
            /\ GenSpan(k0, k1)
            /\ items[k1].p = <<255>>
            /\ gen.yielded = StagesRead(k0, k1 - 1)
            /\ 255 \notin Elems(gen.yielded)
            /\ Pending = After(k1)
            /\ gen.state = "done"
    /\ \A k \in 1..Len(items) :
         (pc = "idle" /\ op.name = "calibration" /\ ret.kind # "none"
            /\ call.start = ItemEnd(k - 1) /\ LastConsumed(k)
            /\ items[k].p = <<255>>)
         => ret.kind = "GloveError"

C8_Witness ==
    /\ CalEnded("GloveError")
    /\ gen.yielded = <<10, 50>>
    /\ Len(items) = 3 /\ items[3].p = <<255>>
    /\ gen.state = "done"

(***************************************************************************)
(* Construction.                                                           *)
(***************************************************************************)
\* the constructor has raised
ConnectFailed == pc = "idle" /\ op.name = "__init__" /\ ret.kind \notin {"none", "ok"}

\* C11: connect-time error wrapping. Whenever constructing a Glove fails
\* (the port cannot be opened, a handshake write or read times out, or a
\* handshake reply fails the checksum / end-marker validation) the error
\* raised is GloveConnectionError.
C11_ConnectErrorsWrapped == ConnectFailed => ret.kind = "GloveConnectionError"

(***************************************************************************)
(* Scoped sampling.                                                        *)
(***************************************************************************)
\* the with statement of sampling() has been left
ScopeLeft == pc = "idle" /\ op.name = "sampling_exit" /\ scope = "left"

\* C12: scoped sampling. stop_sampling is executed on every exit path of
\* the sampling() scope: leaving the scope always attempts the mode-0x00
\* frame, and when no write times out the two stop frames are the last
\* frames written.
C12_StopOnEveryExit ==
    ScopeLeft =>
       /\ call.writes >= 1
       /\ call.raised # "GloveTimeoutError" =>
             /\ Len(tx) >= 2
             /\ SubSeq(tx, Len(tx) - 1, Len(tx)) = StopFrames

(***************************************************************************)
(* Start and stop of the sampling.                                         *)
(***************************************************************************)
\* this step is a call of the operation `name`
CallOf(name) ==
    /\ pc = "idle" /\ pc' = "idle" /\ op'.name = name
    /\ <<tx, op, ret, call>>' # <<tx, op, ret, call>>

\* the frames of the sampling commands, byte by byte
StartQuatBytes == <<36, 10, 3, 1, 50, 35>>
StartRawBytes == <<36, 10, 3, 3, 52, 35>>
StopModeBytes == <<36, 10, 3, 0, 49, 35>>
StopBytes == <<36, 11, 2, 49, 35>>

\* the frames of the writes that completed in this step
NewFrames == [i \in 1..(Len(tx') - Len(tx)) |-> tx'[Len(tx) + i].frame]

\* this step is a call of stop_sampling, with its first statement
StopEntry ==
    /\ pc = "idle" /\ op'.name = "stop_sampling"
    /\ <<tx, pc, op, ret, call>>' # <<tx, pc, op, ret, call>>

\* this step is a later statement of the running stop_sampling call
StopStep ==
    /\ pc # "idle" /\ op.name = "stop_sampling"
    /\ <<tx, pc, ret, call>>' # <<tx, pc, ret, call>>

\* C13: start/stop are fire-and-forget. start_sampling makes one write, of the
\* frame 0x0A with payload 0x03 (raw) or 0x01 (quaternion); stop_sampling
\* makes two writes, 0x0A with payload 0x00 and then, after its wait, 0x0B
\* without payload, and returns after a second wait (a write that times out
\* ends the operation); neither reads from the transport nor changes the
\* buffer.
C13_FireAndForget ==
    [][ /\ (CallOf("start_sampling") \/ StopEntry \/ StopStep) =>
             /\ SubSeq(tx', 1, Len(tx)) = tx
             /\ <<buffer, rx, wire, package>>' = <<buffer, rx, wire, package>>
             /\ ~call'.read /\ call'.recvs = 0
             /\ ret'.kind \in {"none", "ok", "GloveTimeoutError"}
        /\ CallOf("start_sampling") =>
             /\ call'.writes = 1
             /\ IF ret'.kind = "ok"
                THEN /\ NewFrames \in {<<StartQuatBytes>>, <<StartRawBytes>>}
                     /\ NewFrames = <<StartRawBytes>> <=> mode' = "raw"
                     /\ NewFrames = <<StartQuatBytes>> <=> mode' = "quat"
                ELSE NewFrames = <<>>
        /\ StopEntry =>
             /\ call'.writes = 1
             /\ IF pc' # "idle"
                THEN NewFrames = <<StopModeBytes>>
                ELSE NewFrames = <<>> /\ ret'.kind = "GloveTimeoutError"
        /\ (StopStep /\ call.writes = 1) =>
             /\ call'.writes = 2
             /\ tx[Len(tx)].frame = StopModeBytes
             /\ IF pc' # "idle"
                THEN NewFrames = <<StopBytes>>
                ELSE NewFrames = <<>> /\ ret'.kind = "GloveTimeoutError"
        /\ (StopStep /\ call.writes = 2) =>
             /\ NewFrames = <<>>
             /\ call' = call
             /\ pc' = "idle" /\ ret'.kind = "ok"
             /\ <<tx[Len(tx) - 1].frame, tx[Len(tx)].frame>> = <<StopModeBytes, StopBytes>>
      ]_vars

\* stop_sampling has written its two frames behind a start frame and has
\* returned while unconsumed bytes were in the buffer
C13_Witness ==
    /\ pc = "idle" /\ op.name = "stop_sampling" /\ ret.kind = "ok"
    /\ Len(tx) = 3
    /\ tx[1].frame = StartRawBytes
    /\ <<tx[2].frame, tx[3].frame>> = <<StopModeBytes, StopBytes>>
    /\ buffer # <<>>

(***************************************************************************)
(* Closing, reboot, vibro feedback.                                        *)
(***************************************************************************)
\* the operations that close the transport
Closers == {"disconnect", "__exit__", "turn_off"}

\* an operation has ended
Ended(name) == pc = "idle" /\ op.name = name /\ ret.kind # "none"

\* C14: closing is terminal. After disconnect(), after leaving the Glove
\* context, or after turn_off() (which first writes the frame 0x40 without
\* payload) the transport is closed, and every later session operation fails
\* with no byte written; reboot() writes the frame 0x0E without payload and
\* leaves the transport open.
C14_ClosingIsTerminal ==
    /\ \A name \in Closers : (Ended(name) /\ ret.kind = "ok") => _conn = "closed"
    /\ (Ended("turn_off") /\ ret.kind = "ok") =>
          tx[Len(tx)].frame = <<36, 64, 2, 102, 35>>
    /\ (Ended("reboot") /\ ret.kind = "ok") =>
          _conn = "open" /\ tx[Len(tx)].frame = <<36, 14, 2, 52, 35>>
    /\ (_conn = "closed" /\ pc = "idle" /\ op.name \notin Closers
          /\ ret.kind # "none")
       => ret.kind # "ok" /\ call.wrote = 0

\* C15: vibro feedback. For every 5-element level array set_vibro_feedback
\* writes one frame of type 0x60 whose payload is the five bytes
\* round(clamp(v, 0, 1) * 140 + 110), each in 110..250, and one byte 0x00,
\* and awaits no response.
C15_VibroFrame ==
    Ended("set_vibro_feedback") =>
       /\ call.writes = 1 /\ call.recvs = 0 /\ ~call.read
       /\ ret.kind \in {"ok", WriteError}
       /\ ret.kind = "ok" =>
             LET f == tx[Len(tx)]
                 v == [k \in 1..5 |->
                        (Min(Max(op.arg[k], 0), 1000) * 140 + 110000 + 500) \div 1000]
             IN  /\ f.t = 96
                 /\ f.p = v \o <<0>>
                 /\ \A k \in 1..5 : f.p[k] \in 110..250
                 /\ f.frame = <<36, 96, 8>> \o f.p \o <<Sum(<<36, 96, 8>> \o f.p) % 256, 35>>

(***************************************************************************)
(* Frame layout.                                                           *)
(***************************************************************************)
\* C16: frame layout. The bytes of every write of _send(t, p) are 0x24, t,
\* a length byte L + 2 (2 for an absent payload), the L payload bytes, the
\* sum of all the bytes before it modulo 256, and 0x23: L + 5 bytes, written
\* by one conn.write.
C16_FrameLayout ==
    /\ \A i \in 1..Len(tx) :
          LET f == tx[i].frame
              p == Bytes(tx[i].p)
              L == Len(p)
          IN  /\ Len(f) = L + 5
              /\ \A k \in 1..Len(f) : f[k] \in 0..255
              /\ f[1] = 36
              /\ f[2] = tx[i].t
              /\ f[3] = L + 2
              /\ SubSeq(f, 4, L + 3) = p
              /\ f[L + 4] = Sum(SubSeq(f, 1, L + 3)) % 256
              /\ f[L + 5] = 35
    /\ Ended("_send") =>
          /\ call.writes = 1
          /\ ret.kind = "ok" =>
                tx # <<>> /\ tx[Len(tx)].t = op.t /\ tx[Len(tx)].p = op.p

\* _send has written a frame whose byte sum exceeds 255, and one without
\* payload
C16_Witness ==
    /\ Ended("_send") /\ ret.kind = "ok"
    /\ Len(tx) = 2
    /\ tx[1].p = None /\ tx[1].frame = <<36, 255, 2, 37, 35>>
    /\ tx[2].p = <<255, 255>> /\ tx[2].frame = <<36, 36, 4, 255, 255, 74, 35>>

(***************************************************************************)
(* Length validation.                                                      *)
(***************************************************************************)
\* C17: length validation. A _recv that starts at a frame whose length byte
\* differs from the number of its payload bytes + 2, with all of the frame
\* in the port, returns no payload from it and raises GlovePacketError.
C17_LengthValidated ==
    \A k \in 1..Len(items) :
       (RecvEnded /\ StartedAt(k - 1) /\ items[k].kind = "mislength" /\ call.full)
       => ret.kind = "GlovePacketError"

(***************************************************************************)
(* The layout of the sample tail.                                          *)
(***************************************************************************)
\* next_sample has returned the sample the glove built from the subtype
\* byte and the tail, sent as item k
DecodedFrom(k, subtype, tail) ==
    /\ SampleReturned
    /\ LastConsumed(k)
    /\ items[k].p = MakeSample(subtype, tail)

\* the fields of the sample s that both readings of the tail agree on:
\* palm_arch from index 10, thumb_cross_over from 12, pressures from
\* 14..18, abductions from 19..22, battery_charge from 23
TailRest(s, tail) ==
    /\ s.palm_arch = Ratio(tail[10], 1000)
    /\ s.thumb_cross_over = Ratio(tail[12], 1000)
    /\ \A j \in 1..5 : s.pressures[j] = Ratio(999 - tail[13 + j], 999)
    /\ \A j \in 1..4 : s.abductions[j] = Ratio(tail[18 + j], 1000)
    /\ s.battery_charge = Ratio(tail[23], 1000)

\* C18 as stated: the sample takes dip_joints from the tail values at the
\* indices 1,3,5,7,9 and pip_joints from those at 0,2,4,6,8, each divided by
\* 1000, and the other fields as in TailRest.
C18_TailLayoutAsStated ==
    \A k \in 1..Len(items), subtype \in SampleSubtypes, tail \in SampleTails :
       DecodedFrom(k, subtype, tail) =>
          /\ \A j \in 1..5 : ret.val[1].dip_joints[j] = Ratio(tail[2 * j - 1], 1000)
          /\ \A j \in 1..5 : ret.val[1].pip_joints[j] = Ratio(tail[2 * j - 2], 1000)
          /\ TailRest(ret.val[1], tail)

\* C18: the layout of the sample tail. The sample takes pip_joints from the
\* tail values at the indices 1,3,5,7,9 and dip_joints from those at
\* 0,2,4,6,8, each divided by 1000, palm_arch from index 10,
\* thumb_cross_over from 12, pressures from 14..18, abductions from 19..22
\* and battery_charge from 23; the values at 11 and 13 reach no field.
C18_TailLayout ==
    \A k \in 1..Len(items), subtype \in SampleSubtypes, tail \in SampleTails :
       DecodedFrom(k, subtype, tail) =>
          /\ \A j \in 1..5 : ret.val[1].pip_joints[j] = Ratio(tail[2 * j - 1], 1000)
          /\ \A j \in 1..5 : ret.val[1].dip_joints[j] = Ratio(tail[2 * j - 2], 1000)
          /\ TailRest(ret.val[1], tail)
          /\ ret.val[1] = DecodeSample(MakeSample(subtype, TailA))

\* a sample of the tail that differs at the indices 11 and 13 has been
\* decoded, with the first pip joint read from index 1 and the first dip
\* joint from index 0
C18_Witness ==
    \E k \in 1..Len(items) :
       /\ DecodedFrom(k, 3, TailB)
       /\ ret.val[1].pip_joints[1] = Ratio(101, 1000)
       /\ ret.val[1].dip_joints[1] = Ratio(100, 1000)
       /\ ret.val[1].thumb_cross_over = Ratio(112, 1000)

(***************************************************************************)
(* The scaling of the sample.                                              *)
(***************************************************************************)
\* the IMU value built from the nine signed 16-bit readings that follow the
\* first `off` readings of the raw block
ScaledIMU(off) ==
    [angular_velocity |-> [j \in 1..3 |-> Ratio(RawValues[off + j] * 10, 32768)],
     acceleration     |-> [j \in 1..3 |-> Ratio(RawValues[off + 3 + j] * 4, 32768)],
     magnetic_field   |-> [j \in 1..3 |-> Ratio(RawValues[off + 6 + j], 1)]]

\* the quaternion built from the four signed 32-bit readings that follow
\* the first `off` readings of the quaternion block
ScaledQuat(off) == [j \in 1..4 |-> Ratio(QuatValues[off + j], 65536)]

\* C19: the scaling of the sample. next_sample reads the raw-IMU layout
\* exactly when the subtype byte is 3 and the quaternion layout otherwise;
\* angular velocity is raw * 10 / 32768 (16384 gives 5), acceleration
\* raw * 4 / 32768, the magnetic field unscaled, a quaternion component
\* raw / 65536 (65536 gives 1), a pressure 1 - raw / 999 (0 gives 1, 999
\* gives 0), the clock raw / 1000; the readings are signed 16-bit, signed
\* 32-bit and unsigned 16-bit big-endian values.
C19_Scaling ==
    \A k \in 1..Len(items), subtype \in SampleSubtypes, tail \in SampleTails :
       DecodedFrom(k, subtype, tail) =>
          /\ subtype = 3 =>
                /\ ret.val[1].wrist_imu = ScaledIMU(0)
                /\ ret.val[1].hand_imu = ScaledIMU(9)
                /\ ret.val[1].wrist_quat = None
                /\ ret.val[1].hand_quat = None
                /\ ret.val[1].wrist_imu.angular_velocity[1].num
                      = 5 * ret.val[1].wrist_imu.angular_velocity[1].den
                /\ ret.val[1].wrist_imu.acceleration[2].num
                      = (-4) * ret.val[1].wrist_imu.acceleration[2].den
          /\ subtype # 3 =>
                /\ ret.val[1].wrist_quat = ScaledQuat(0)
                /\ ret.val[1].hand_quat = ScaledQuat(4)
                /\ ret.val[1].wrist_imu = None
                /\ ret.val[1].hand_imu = None
                /\ ret.val[1].wrist_quat[1].num = ret.val[1].wrist_quat[1].den
                /\ ret.val[1].wrist_quat[2].num = - ret.val[1].wrist_quat[2].den
          /\ \A j \in 1..5 :
                ret.val[1].pressures[j] = Ratio(999 - tail[13 + j], 999)
          /\ ret.val[1].pressures[1].num = ret.val[1].pressures[1].den
          /\ ret.val[1].pressures[2].num = 0
          /\ ret.val[1].clock = Ratio(SampleClock, 1000)
          /\ ret.val[1].device_id = ConnectId

\* a raw sample whose first angular velocity reading is 16384 and whose
\* first two pressure readings are 0 and 999 has been decoded, after a
\* quaternion sample
C19_Witness ==
    /\ Len(items) = 2
    /\ items[1].p = MakeSample(1, TailA)
    /\ DecodedFrom(2, 3, TailA)
    /\ ret.val[1].wrist_imu.angular_velocity[1] = Ratio(163840, 32768)
    /\ ret.val[1].wrist_imu.angular_velocity[2] = Ratio(-163840, 32768)
    /\ ret.val[1].pressures[1] = Ratio(999, 999)
    /\ ret.val[1].pressures[2] = Ratio(0, 999)

(***************************************************************************)
(* A damaged frame is reported once.                                       *)
(***************************************************************************)
\* the items k+1 .. i-1 are well-formed frames of types other than t
PassedOver(k, i, t) ==
    \A j \in (k + 1)..(i - 1) : items[j].kind = "frame" /\ items[j].t # t

\* C20: a damaged frame is reported exactly once. The _recv call that
\* reaches a frame whose checksum or end marker is wrong raises
\* GlovePacketError, whether the type of the frame is the awaited one or
\* not, with all bytes of the frame consumed and none behind it; a _recv
\* call that starts behind the frame raises no GlovePacketError.
C20_ReportedOnce ==
    \A i \in 1..Len(items) :
        items[i].kind = "damaged" =>
          /\ \A k \in 0..(i - 1) :
                (RecvEnded /\ StartedAt(k) /\ PassedOver(k, i, op.t))
                => /\ call.full => ret.kind = "GlovePacketError"
                   /\ ret.kind \in {"GlovePacketError", "GloveTimeoutError"}
                   /\ ret.kind = "GlovePacketError" => Pending = After(i)
          /\ \A k \in i..Len(items) :
                (RecvEnded /\ StartedAt(k)) => ret.kind # "GlovePacketError"

\* a _recv(10) has met a frame of another type whose end marker is wrong,
\* has raised GlovePacketError, and the frame behind it is still to be read
C20_Witness ==
    /\ RecvEnded /\ StartedAt(0) /\ op.t = 10
    /\ Len(items) = 2
    /\ items[1].kind = "damaged" /\ items[1].t = START
    /\ items[1].bytes[Len(items[1].bytes)] # END
    /\ ret.kind = "GlovePacketError"
    /\ Pending = items[2].bytes

(***************************************************************************)
(* Correlation of command and response.                                    *)
(***************************************************************************)
\* the item the glove sent in answer to the request written last: the glove
\* of the setter specification answers each request once, in order, so the
\* answer to request number n is item number n, put on the wire after the
\* request was written
AnswerToLast == Len(tx)

\* C21: correlation of command and response. When a setter has succeeded,
\* the payload its _exec returned is that of the frame the glove sent in
\* answer to this setter's request, and the cached field holds the value
\* of that frame.
C21_AnswersOwnRequest ==
    (SetterEnded("device_id") /\ ret.kind = "ok")
    => /\ AnswerToLast \in 1..Len(items)
       /\ LastConsumed(AnswerToLast)
       /\ _device_id.items = <<Unpack_H(items[AnswerToLast].p)>>

(***************************************************************************)
(* Termination of _recv.                                                   *)
(***************************************************************************)
\* the bytes a _read can still get: those in the buffer and in the port
Readable == Len(buffer) + Len(rx)

\* the size the next _read of the running _recv asks for
NextSize ==
    CASE pc = "recv"      -> 1
      [] pc = "recv_head" -> 2
      [] pc = "recv_body" -> package[3] - 2
      [] pc = "recv_tail" -> 2
      [] OTHER            -> 0

\* the step is a statement of the running _recv
IsRecvStep == pc # "idle" /\ wire' = wire /\ vars' # vars

\* C22: termination of frame reception. Every _recv call ends: it returns
\* a payload, raises GlovePacketError or raises GloveTimeoutError; a read
\* that cannot be satisfied ends the call with GloveTimeoutError in that
\* very step; and every turn of the loop that does not end the call takes
\* one byte off the stream.
C22_RecvTerminates ==
    /\ (pc # "idle") ~>
          (RecvEnded /\ ret.kind \in {"ok", "GlovePacketError", "GloveTimeoutError"})
    /\ [][ /\ (IsRecvStep /\ NextSize > Readable)
               => (pc' = "idle" /\ ret'.kind = "GloveTimeoutError")
           /\ (IsRecvStep /\ pc = "recv" /\ pc' # "idle")
               => Consumed' = Consumed + 1
         ]_vars

\* a _recv has passed over a stray byte and a whole frame of another type
\* and has then raised GloveTimeoutError with nothing left to read
C22_Witness ==
    /\ RecvEnded /\ ret.kind = "GloveTimeoutError"
    /\ StartedAt(0) /\ Len(items) = 2
    /\ items[1].kind = "stray" /\ items[2].kind = "frame" /\ items[2].t # op.t
    /\ Pending = <<>>

(***************************************************************************)
(* Consumption per frame.                                                  *)
(***************************************************************************)
\* the _recv call started at item k and ended on it: with GlovePacketError
\* on a frame with a wrong length byte, or with a payload on a frame of the
\* awaited type
EndedOnFrame(k) ==
    /\ RecvEnded /\ StartedAt(k - 1)
    /\ \/ items[k].kind = "mislength" /\ ret.kind = "GlovePacketError"
       \/ /\ items[k].kind \in {"frame", "mislength"}
          /\ ret.kind = "ok" /\ items[k].bytes[2] = op.t

\* C23: exact consumption per frame. Every _read of a running _recv asks
\* for a non-negative number of bytes and, when it succeeds, takes exactly
\* that many bytes off the stream; a _recv that ends on a frame whose
\* length byte is n has consumed n + 3 bytes.
C23_ExactConsumption ==
    /\ [](\A k \in 1..Len(items) :
            EndedOnFrame(k) => Consumed = call.start + items[k].bytes[3] + 3)
    /\ [][ IsRecvStep =>
             /\ NextSize >= 0
             /\ ~(pc' = "idle" /\ ret'.kind = "GloveTimeoutError")
                   => Consumed' = Consumed + NextSize
         ]_vars

(***************************************************************************)
(* Conservation of the byte stream.                                        *)
(***************************************************************************)
\* the bytes the step takes from the port
TakenNow == SubSeq(rx, 1, Len(rx) - Len(rx'))

\* the _read of the step raises GloveTimeoutError
TimesOutNow == pc' = "idle" /\ ret'.kind = "GloveTimeoutError"

\* the bytes the _read of the step returns into package
ReturnedNow ==
    IF pc = "recv" THEN package'
    ELSE SubSeq(package', Len(package) + 1, Len(package'))

\* C24: conservation of the byte stream. While a frame is being read, the
\* bytes returned for it, then the buffer, then the bytes in the port and
\* on the line are the tail of the stream the line carried, byte for byte.
\* In every _read, the bytes returned followed by the buffer after it are
\* the buffer before it followed by the bytes taken from the port, which
\* are the first of those that waited there; a _read that raises
\* GloveTimeoutError returns nothing and leaves in the buffer what was
\* there and all that waited in the port.
C24_Conservation ==
    /\ [](pc \in {"recv_head", "recv_body", "recv_tail"} =>
            /\ Len(package) + Len(Pending) <= Len(Flat(items))
            /\ package \o Pending
                 = SubSeq(Flat(items),
                          Len(Flat(items)) - Len(package) - Len(Pending) + 1,
                          Len(Flat(items))))
    /\ [][ IsRecvStep =>
             /\ Len(rx') <= Len(rx)
             /\ rx = TakenNow \o rx'
             /\ TimesOutNow =>
                   /\ package' = package
                   /\ buffer' = buffer \o rx
                   /\ rx' = <<>>
             /\ (~TimesOutNow /\ pc # "recv_tail") =>
                   /\ pc # "recv" => SubSeq(package', 1, Len(package)) = package
                   /\ ReturnedNow \o buffer' = buffer \o TakenNow
             /\ (~TimesOutNow /\ pc = "recv_tail") =>
                   /\ Len(buffer \o TakenNow) >= 2
                   /\ buffer' = SubSeq(buffer \o TakenNow, 3, Len(buffer \o TakenNow))
         ]_vars

\* a _read has raised GloveTimeoutError after a _read of negative size, and
\* the bytes received are in the buffer
C24_Witness ==
    /\ RecvEnded /\ ret.kind = "GloveTimeoutError"
    /\ Len(package) > 3 /\ package[3] = 1
    /\ buffer # <<>> /\ rx = <<>> /\ wire # <<>>

====
